---- MODULE Spec2Model ----
(***************************************************************************)
(* Face-attendance system: the FaceRecognizer engine (face_recognizer.py), *)
(* the attendance ledger (database.py) and the two request handlers that   *)
(* drive them (app.py), as a state machine of concurrent request threads.  *)
(*                                                                         *)
(* Confidence and distance values are integers counted in thousandths of a *)
(* point (Units(65) is the source's 65), so that the two-decimal rounding  *)
(* of the reported confidence is not the identity.                         *)
(***************************************************************************)
EXTENDS Integers, Sequences, FiniteSets, Bags, TLC

(* ------------------------------ bounds --------------------------------- *)
NumThreads == 2      \* concurrent request threads of the threaded server
MaxFaceId  == 2      \* no new enrollment starts once next_face_id reaches it
MaxRestart == 1      \* process restarts explored
MaxDay     == 2      \* calendar days explored
MaxRequests == 11    \* /api/recognize requests in flight at once
MaxConstruct == 3    \* runs of the engine's initialization body explored
MaxFaces   == 3      \* boxes the detector reports in one image
MaxSide    == 2      \* width and height of a box

(* ------------------------- program constants --------------------------- *)
Units(n) == n * 1000
NumAugment == 3
QueueMax == 10

Threads == 1 .. NumThreads
NoThread == 0
Null == -1

\* the (nim, name) pairs the registration requests carry
Persons == {[nim |-> "S001", name |-> "Alice"],
            [nim |-> "S001", name |-> "Alice2"],
            [nim |-> "S002", name |-> "Bob"]}

\* raw LBPH distances and mean frame intensities fed to the request handlers
Distances    == {Units(35) - 1, Units(35), Units(120)}
Brightnesses == {120}

VARIABLES
  students,        \* FaceRecognizer.students : face_id -> identity record
  next_face_id,    \* FaceRecognizer.next_face_id
  recognizer,      \* the in-memory LBPH classifier
  model_lock,      \* holder of FaceRecognizer.model_lock (NoThread = free)
  students_lock,   \* holder of FaceRecognizer.students_lock
  model_file,      \* models/face_trainer.yml
  students_file,   \* models/students_data.pkl
  db_students,     \* table students of the storage backend (row id = index)
  attendance,      \* table attendance of the storage backend: the bag of
                   \* its committed rows
  day,             \* the calendar date datetime.now() reports
  pc,              \* position of each request thread
  reg,             \* locals of register_face_from_image
  rec,             \* locals of recognize_face_from_image
  ra,              \* locals of record_attendance
  result,          \* what the engine / handler returned to its caller
  nRestart,        \* restarts so far
  score,           \* input and output of the pure functions (SpecScore,
                   \* SpecBox)
  recognition_queue,  \* app.recognition_queue: the number of items it holds
  requests,        \* /api/recognize requests in flight, counted by their
                   \* position in app.recognize_face (SpecQueue)
  boot             \* app.db, app.face_recognizer, app.init_lock, the two
                   \* singletons and each thread's position in
                   \* check_components / initialize_components (SpecInit)

vars == <<students, next_face_id, recognizer, model_lock, students_lock,
          model_file, students_file, db_students, attendance, day,
          pc, reg, rec, ra, result, nRestart, score,
          recognition_queue, requests, boot>>

engineVars == <<students, next_face_id, recognizer>>
lockVars   == <<model_lock, students_lock>>
diskVars   == <<model_file, students_file>>
dbVars     == <<db_students, attendance>>
queueVars  == <<recognition_queue, requests>>
envVars    == <<day, nRestart, score, recognition_queue, requests, boot>>

(* ------------------------------ values --------------------------------- *)
EmptyStudents == << >>
Untrained == [trained |-> FALSE, samples |-> {}]
NoModelFile    == [exists |-> FALSE, data |-> Untrained]
NoStudentsFile == [exists |-> FALSE, data |-> EmptyStudents]

NoReg == [nim |-> "", name |-> "", face_id |-> Null]
NoRec == [label |-> Null, conf |-> Null, lighting |-> "",
          recognized |-> FALSE, face_id |-> Null, nim |-> "", name |-> "",
          confidence |-> Null]
NoRow == [student_id |-> Null, nim |-> "", name |-> "", date |-> Null,
          confidence |-> Null, lighting_condition |-> ""]
NoRa  == [student_id |-> Null, today |-> Null, conn |-> "none",
          txn |-> "none", failed |-> "none", record |-> NoRow,
          outcome |-> "none"]
NoResult == [success |-> FALSE, message |-> "", face_id |-> Null]

NoRequests == [check |-> 0, rejected |-> 0, put |-> 0, proc |-> 0,
               get |-> 0, respond |-> 0, get_again |-> 0]
\* nothing constructed yet: the process has just started
NotBooted ==
  [init_lock |-> NoThread,
   db |-> FALSE, db_instances |-> 0, db_initialized |-> FALSE, db_bodies |-> 0,
   face_recognizer |-> FALSE, instances |-> 0, initialized |-> FALSE,
   bodies |-> 0, loading |-> NoThread,
   pc |-> [t \in Threads |-> "out"]]
\* both components constructed by the initialize_components() of startup
Booted ==
  [NotBooted EXCEPT !.db = TRUE, !.db_instances = 1, !.db_initialized = TRUE,
                    !.db_bodies = 1, !.face_recognizer = TRUE, !.instances = 1,
                    !.initialized = TRUE, !.bodies = 1]
NoScore == [d |-> Null, b |-> Null, done |-> FALSE, conf |-> Null, lighting |-> ""]

Max(S) == CHOOSE x \in S : \A y \in S : y <= x

(* --------------------- face_recognizer.py: helpers --------------------- *)

\* mutant: the reload leaves the counter at its initial value
LoadNextFaceIdZero(s) == 0

\* mutant: the reload takes the greatest stored identifier itself
LoadNextFaceIdNoIncrement(s) ==
  IF DOMAIN s # {} THEN Max(DOMAIN s) ELSE 0

\* _load_data, lines 80-84: the next free identifier after a reload
LoadNextFaceId(s) ==
  IF DOMAIN s # {} THEN Max(DOMAIN s) + 1 ELSE 0

\* mutant: the duplicate check reads the wrong field of the identity
NimRegisteredByName(s, n) == \E k \in DOMAIN s : s[k].name = n

\* register_face_from_image, lines 133-135: the duplicate check
NimRegistered(s, n) == \E k \in DOMAIN s : s[k].nim = n

\* mutant: the identity is stored under the counter's advanced value
PutStudentAfterIncrement(s, fid, n, nm, d) ==
  ((fid + 1) :> [nim |-> n, name |-> nm, registered_at |-> d]) @@ s

\* register_face_from_image, lines 169-173: students[face_id] = {...}
PutStudent(s, fid, n, nm, d) ==
  (fid :> [nim |-> n, name |-> nm, registered_at |-> d]) @@ s

\* register_face_from_image, lines 183-186: the labelled training batch
TrainingBatch(fid, n) ==
  {[label |-> fid, nim |-> n, variation |-> i] : i \in 0 .. NumAugment - 1}

\* LBPHFaceRecognizer.train: replaces the model by the batch
Train(r, batch) == [trained |-> TRUE, samples |-> batch]
\* LBPHFaceRecognizer.update: folds the batch into the model
Update(r, batch) == [trained |-> TRUE, samples |-> r.samples \cup batch]

\* register_face_from_image, lines 189-194: update if a snapshot file exists
TrainOrUpdate(r, file, batch) ==
  IF file.exists THEN Update(r, batch) ELSE Train(r, batch)

Labels(r) == {s.label : s \in r.samples}

\* mutant: the confidence is not clamped at distance 100
AdjustConfidenceNoClamp(d) == Units(100) - d

\* recognize_face_from_image, line 269
AdjustConfidence(d) == IF d < Units(100) THEN Units(100) - d ELSE 0

\* mutant: the bucket boundaries belong to the lower bucket
LightingInclusive(b) ==
  IF b <= 50 THEN "Dark"
  ELSE IF b <= 100 THEN "Dim"
  ELSE IF b <= 150 THEN "Normal"
  ELSE "Bright"

\* recognize_face_from_image, lines 272-280
Lighting(b) ==
  IF b < 50 THEN "Dark"
  ELSE IF b < 100 THEN "Dim"
  ELSE IF b < 150 THEN "Normal"
  ELSE "Bright"

\* round(confidence, 2) on a value counted in thousandths
Round2(c) == ((c + 5) \div 10) * 10

\* mutant: the threshold itself is accepted
AcceptedAtThreshold(s, label, conf) == label \in DOMAIN s /\ conf >= Units(65)

\* recognize_face_from_image, line 284: the acceptance test
Accepted(s, label, conf) == label \in DOMAIN s /\ conf > Units(65)

\* recognize_face_from_image, lines 284-314: the result entry
ResultEntry(s, r) ==
  IF Accepted(s, r.label, r.conf)
  THEN [r EXCEPT !.recognized = TRUE, !.face_id = r.label,
                 !.nim = s[r.label].nim, !.name = s[r.label].name,
                 !.confidence = Round2(r.conf)]
  ELSE [r EXCEPT !.recognized = FALSE, !.face_id = Null,
                 !.nim = "NULL", !.name = "Unknown",
                 !.confidence = Round2(r.conf)]

(* -------------------------------- Init --------------------------------- *)
MainInit ==
  /\ students = EmptyStudents
  /\ next_face_id = 0
  /\ recognizer = Untrained
  /\ model_lock = NoThread
  /\ students_lock = NoThread
  /\ model_file = NoModelFile
  /\ students_file = NoStudentsFile
  /\ db_students = << >>
  /\ attendance = EmptyBag
  /\ day = 1
  /\ pc = [t \in Threads |-> "idle"]
  /\ reg = [t \in Threads |-> NoReg]
  /\ rec = [t \in Threads |-> NoRec]
  /\ ra = [t \in Threads |-> NoRa]
  /\ result = [t \in Threads |-> NoResult]
  /\ nRestart = 0
  /\ recognition_queue = 0
  /\ requests = NoRequests

Init == MainInit /\ score = NoScore /\ boot = Booted

(* ------------------ helpers for the thread-local state ----------------- *)
Goto(t, l) == pc' = [pc EXCEPT ![t] = l]
Return(t, r) == /\ pc' = [pc EXCEPT ![t] = "done"]
                /\ result' = [result EXCEPT ![t] = r]
Fail(msg) == [success |-> FALSE, message |-> msg, face_id |-> Null]

(* ============ /api/register : app.register_student ===================== *)
(* and FaceRecognizer.register_face_from_image, one step per lock region   *)

\* app.py 126-138: the handler reads nim and name and calls the engine
StartRegister(t) ==
  /\ pc[t] = "idle"
  /\ next_face_id < MaxFaceId
  /\ \E p \in Persons :
       reg' = [reg EXCEPT ![t] = [nim |-> p.nim, name |-> p.name, face_id |-> Null]]
  /\ Goto(t, "reg_lock1")
  /\ UNCHANGED <<engineVars, lockVars, diskVars, dbVars, envVars, rec, ra, result>>

\* line 132: with self.students_lock
RegAcquireCheck(t) ==
  /\ pc[t] = "reg_lock1"
  /\ students_lock = NoThread
  /\ students_lock' = t
  /\ Goto(t, "reg_check")
  /\ UNCHANGED <<engineVars, model_lock, diskVars, dbVars, envVars, reg, rec, ra, result>>

\* lines 133-135: return "NIM already registered" when the nim is stored
RegCheck(t) ==
  /\ pc[t] = "reg_check"
  /\ students_lock' = NoThread
  /\ IF NimRegistered(students, reg[t].nim)
     THEN Return(t, Fail("NIM already registered"))
     ELSE Goto(t, "reg_detect") /\ UNCHANGED result
  /\ UNCHANGED <<engineVars, model_lock, diskVars, dbVars, envVars, reg, rec, ra>>

\* mutant: the identifier is allocated before the image is looked at
RegDetectAllocated(t) ==
  /\ pc[t] = "reg_detect"
  /\ next_face_id' = next_face_id + 1
  /\ \/ Return(t, Fail("Error: invalid image"))
     \/ Return(t, Fail("No face detected"))
     \/ Goto(t, "reg_lock2") /\ UNCHANGED result
  /\ UNCHANGED <<students, recognizer, lockVars, diskVars, dbVars, envVars, reg, rec, ra>>

\* lines 137-162: decode, detect, crop; the image cannot be decoded (the
\* except clause of line 206), holds no face, or holds at least one
RegDetect(t) ==
  /\ pc[t] = "reg_detect"
  /\ \/ Return(t, Fail("Error: invalid image"))
     \/ Return(t, Fail("No face detected"))
     \/ Goto(t, "reg_lock2") /\ UNCHANGED result
  /\ UNCHANGED <<engineVars, lockVars, diskVars, dbVars, envVars, reg, rec, ra>>

\* line 165: with self.students_lock
RegAcquireAssign(t) ==
  /\ pc[t] = "reg_lock2"
  /\ students_lock = NoThread
  /\ students_lock' = t
  /\ Goto(t, "reg_assign")
  /\ UNCHANGED <<engineVars, model_lock, diskVars, dbVars, envVars, reg, rec, ra, result>>

\* lines 166-175: allocate the identifier and insert the identity
RegAssign(t) ==
  /\ pc[t] = "reg_assign"
  /\ reg' = [reg EXCEPT ![t].face_id = next_face_id]
  /\ students' = PutStudent(students, next_face_id, reg[t].nim, reg[t].name, day)
  /\ next_face_id' = next_face_id + 1
  /\ students_lock' = NoThread
  /\ Goto(t, "reg_lock3")
  /\ UNCHANGED <<recognizer, model_lock, diskVars, dbVars, envVars, rec, ra, result>>

\* line 178: with self.model_lock
RegAcquireTrain(t) ==
  /\ pc[t] = "reg_lock3"
  /\ model_lock = NoThread
  /\ model_lock' = t
  /\ Goto(t, "reg_train")
  /\ UNCHANGED <<engineVars, students_lock, diskVars, dbVars, envVars, reg, rec, ra, result>>

\* lines 179-194: build the batch, then update or train; a classifier call
\* that raises leaves the with block and reaches the except clause of
\* line 206
RegTrain(t) ==
  /\ pc[t] = "reg_train"
  /\ model_lock' = NoThread
  /\ \/ /\ recognizer' = TrainOrUpdate(recognizer, model_file,
                                       TrainingBatch(reg[t].face_id, reg[t].nim))
        /\ Goto(t, "save_lock1")
        /\ UNCHANGED result
     \/ /\ Return(t, Fail("Error: classifier failed"))
        /\ UNCHANGED recognizer
  /\ UNCHANGED <<students, next_face_id, students_lock, diskVars, dbVars, envVars,
                 reg, rec, ra>>

\* _save_data, line 97: with self.model_lock
SaveAcquireModel(t) ==
  /\ pc[t] = "save_lock1"
  /\ model_lock = NoThread
  /\ model_lock' = t
  /\ Goto(t, "save_model")
  /\ UNCHANGED <<engineVars, students_lock, diskVars, dbVars, envVars, reg, rec, ra, result>>

\* mutant: _save_data keeps model_lock while it goes on to students_lock
SaveModelKeepsLock(t) ==
  /\ pc[t] = "save_model"
  /\ \/ /\ model_file' = [exists |-> TRUE, data |-> recognizer]
        /\ Goto(t, "save_lock2")
        /\ UNCHANGED <<result, model_lock>>
     \/ /\ Return(t, Fail("Error: model write failed"))
        /\ model_lock' = NoThread
        /\ UNCHANGED model_file
  /\ UNCHANGED <<engineVars, students_lock, students_file, dbVars, envVars, reg, rec, ra>>

\* _save_data, line 98: recognizer.write; a failed write raises, and
\* register_face_from_image (line 206) turns that into a failed result
SaveModel(t) ==
  /\ pc[t] = "save_model"
  /\ model_lock' = NoThread
  /\ \/ /\ model_file' = [exists |-> TRUE, data |-> recognizer]
        /\ Goto(t, "save_lock2")
        /\ UNCHANGED result
     \/ /\ Return(t, Fail("Error: model write failed"))
        /\ UNCHANGED model_file
  /\ UNCHANGED <<engineVars, students_lock, students_file, dbVars, envVars, reg, rec, ra>>

\* _save_data, line 100: with self.students_lock
SaveAcquireStudents(t) ==
  /\ pc[t] = "save_lock2"
  /\ students_lock = NoThread
  /\ students_lock' = t
  /\ Goto(t, "save_students")
  /\ UNCHANGED <<engineVars, model_lock, diskVars, dbVars, envVars, reg, rec, ra, result>>

\* _save_data, lines 101-102, then register_face_from_image lines 199-204
SaveStudents(t) ==
  /\ pc[t] = "save_students"
  /\ students_lock' = NoThread
  /\ \/ /\ students_file' = [exists |-> TRUE, data |-> students]
        /\ result' = [result EXCEPT ![t] =
             [success |-> TRUE, message |-> "registered", face_id |-> reg[t].face_id]]
        /\ Goto(t, "reg_db")
     \/ /\ Return(t, Fail("Error: students write failed"))
        /\ UNCHANGED students_file
  /\ UNCHANGED <<engineVars, model_lock, model_file, dbVars, envVars, reg, rec, ra>>

\* app.py 140-154 and database.py 201-206, 108-161: add_student through
\* execute_query, which returns None on a failed insert; the handler does
\* not look at the returned value (log_activity writes table system_logs,
\* which nothing reads back, and is left out)
RegisterDb(t) ==
  /\ pc[t] = "reg_db"
  /\ \/ db_students' = Append(db_students,
           [nim |-> reg[t].nim, name |-> reg[t].name, face_id |-> reg[t].face_id])
     \/ UNCHANGED db_students
  /\ Goto(t, "done")
  /\ UNCHANGED <<engineVars, lockVars, diskVars, attendance, envVars, reg, rec, ra, result>>

\* the handler sends its response; the thread serves the next request
Respond(t) ==
  /\ pc[t] = "done"
  /\ pc' = [pc EXCEPT ![t] = "idle"]
  /\ reg' = [reg EXCEPT ![t] = NoReg]
  /\ rec' = [rec EXCEPT ![t] = NoRec]
  /\ ra' = [ra EXCEPT ![t] = NoRa]
  /\ result' = [result EXCEPT ![t] = NoResult]
  /\ UNCHANGED <<engineVars, lockVars, diskVars, dbVars, envVars>>

\* FaceRecognizer.__init__ / _load_data (lines 44-52, 68-88) after the
\* process has gone down: threads, locks and memory are lost, the two
\* snapshot files and the database are not
Restart ==
  /\ nRestart < MaxRestart
  /\ nRestart' = nRestart + 1
  /\ recognizer' = IF model_file.exists THEN model_file.data ELSE Untrained
  /\ students' = IF students_file.exists THEN students_file.data ELSE EmptyStudents
  /\ next_face_id' = IF students_file.exists
                     THEN LoadNextFaceId(students_file.data) ELSE 0
  /\ model_lock' = NoThread
  /\ students_lock' = NoThread
  /\ pc' = [t \in Threads |-> "idle"]
  /\ reg' = [t \in Threads |-> NoReg]
  /\ rec' = [t \in Threads |-> NoRec]
  /\ ra' = [t \in Threads |-> NoRa]
  /\ result' = [t \in Threads |-> NoResult]
  /\ recognition_queue' = 0
  /\ requests' = NoRequests
  /\ UNCHANGED <<diskVars, dbVars, day, score, boot>>

\* midnight passes
Tick ==
  /\ day < MaxDay
  /\ day' = day + 1
  /\ UNCHANGED <<engineVars, lockVars, diskVars, dbVars, nRestart, score,
                 queueVars, boot, pc, reg, rec, ra, result>>

(* ============ /api/recognize : app.recognize_face ======================= *)
(* process_recognition and FaceRecognizer.recognize_face_from_image        *)

\* app.py 215-236, 170: the handler calls the engine through
\* process_recognition (the admission queue of lines 225-237 holds no state
\* the engine or the ledger reads; SpecQueue has it)
StartRecognize(t) ==
  /\ pc[t] = "idle"
  /\ Goto(t, "rec_detect")
  /\ UNCHANGED <<engineVars, lockVars, diskVars, dbVars, envVars, reg, rec, ra, result>>

\* lines 232-262: decode, detect, crop; an undecodable image raises into the
\* except clause of line 323, an image without a face returns at line 249
RecDetect(t) ==
  /\ pc[t] = "rec_detect"
  /\ \/ Return(t, Fail("Recognition error: invalid image"))
     \/ Return(t, Fail("No face detected"))
     \/ Goto(t, "rec_lock1") /\ UNCHANGED result
  /\ UNCHANGED <<engineVars, lockVars, diskVars, dbVars, envVars, reg, rec, ra>>

\* mutant: the prediction does not wait for model_lock
RecAcquirePredictNoWait(t) ==
  /\ pc[t] = "rec_lock1"
  /\ model_lock' = t
  /\ Goto(t, "rec_predict")
  /\ UNCHANGED <<engineVars, students_lock, diskVars, dbVars, envVars, reg, rec, ra, result>>

\* line 265: with self.model_lock
RecAcquirePredict(t) ==
  /\ pc[t] = "rec_lock1"
  /\ model_lock = NoThread
  /\ model_lock' = t
  /\ Goto(t, "rec_predict")
  /\ UNCHANGED <<engineVars, students_lock, diskVars, dbVars, envVars, reg, rec, ra, result>>

\* mutant: the prediction folds the probe face into the classifier
RecPredictAdapting(t) ==
  /\ pc[t] = "rec_predict"
  /\ model_lock' = NoThread
  /\ IF ~recognizer.trained
     THEN /\ Return(t, Fail("Recognition error: model not trained"))
          /\ UNCHANGED <<rec, recognizer>>
     ELSE /\ \E l \in Labels(recognizer), d \in Distances, b \in Brightnesses :
               /\ rec' = [rec EXCEPT ![t] = [NoRec EXCEPT !.label = l,
                                               !.conf = AdjustConfidence(d),
                                               !.lighting = Lighting(b)]]
               /\ recognizer' = Update(recognizer,
                                       {[label |-> l, nim |-> "", variation |-> 0]})
          /\ Goto(t, "rec_lock2")
          /\ UNCHANGED result
  /\ UNCHANGED <<students, next_face_id, students_lock, diskVars, dbVars, envVars,
                 reg, ra>>

\* mutant: the exception of predict is not caught by the call
RecPredictUncaught(t) ==
  /\ pc[t] = "rec_predict"
  /\ model_lock' = NoThread
  /\ IF ~recognizer.trained
     THEN Goto(t, "raised") /\ UNCHANGED <<rec, result>>
     ELSE /\ \E l \in Labels(recognizer), d \in Distances, b \in Brightnesses :
               rec' = [rec EXCEPT ![t] = [NoRec EXCEPT !.label = l,
                                            !.conf = AdjustConfidence(d),
                                            !.lighting = Lighting(b)]]
          /\ Goto(t, "rec_lock2")
          /\ UNCHANGED result
  /\ UNCHANGED <<engineVars, students_lock, diskVars, dbVars, envVars, reg, ra>>

\* lines 266-280: predict (which raises on a classifier that was never
\* trained), then the confidence and the lighting bucket
RecPredict(t) ==
  /\ pc[t] = "rec_predict"
  /\ model_lock' = NoThread
  /\ IF ~recognizer.trained
     THEN Return(t, Fail("Recognition error: model not trained")) /\ UNCHANGED rec
     ELSE /\ \E l \in Labels(recognizer), d \in Distances, b \in Brightnesses :
               rec' = [rec EXCEPT ![t] = [NoRec EXCEPT !.label = l,
                                            !.conf = AdjustConfidence(d),
                                            !.lighting = Lighting(b)]]
          /\ Goto(t, "rec_lock2")
          /\ UNCHANGED result
  /\ UNCHANGED <<engineVars, students_lock, diskVars, dbVars, envVars, reg, ra>>

\* line 283: with self.students_lock
RecAcquireCheck(t) ==
  /\ pc[t] = "rec_lock2"
  /\ students_lock = NoThread
  /\ students_lock' = t
  /\ Goto(t, "rec_check")
  /\ UNCHANGED <<engineVars, model_lock, diskVars, dbVars, envVars, reg, rec, ra, result>>

\* lines 284-321: the acceptance test and the result
RecCheck(t) ==
  /\ pc[t] = "rec_check"
  /\ students_lock' = NoThread
  /\ rec' = [rec EXCEPT ![t] = ResultEntry(students, rec[t])]
  /\ result' = [result EXCEPT ![t] =
       [success |-> TRUE, message |-> "recognition", face_id |-> Null]]
  /\ Goto(t, "proc")
  /\ UNCHANGED <<engineVars, model_lock, diskVars, dbVars, envVars, reg, ra>>

\* database.py 217-220: the rows of table students with this face_id
StudentsByFaceId(fid) == {i \in DOMAIN db_students : db_students[i].face_id = fid}

\* mutant: the handler looks the predicted label up without testing the
\* recognized flag
ProcessRecognitionUnchecked(t) ==
  /\ pc[t] = "proc"
  /\ \/ /\ Goto(t, "done") /\ UNCHANGED ra
     \/ /\ \E i \in StudentsByFaceId(rec[t].label) :
             ra' = [ra EXCEPT ![t] = [NoRa EXCEPT !.student_id = i]]
        /\ Goto(t, "ra_conn")
  /\ UNCHANGED <<engineVars, lockVars, diskVars, dbVars, envVars, reg, rec, result>>

\* app.py 172-196: the engine's result is handed to the ledger only for a
\* recognized face whose student row is found; get_student_by_face_id
\* returns None when its query fails (execute_query, lines 131-154)
ProcessRecognition(t) ==
  /\ pc[t] = "proc"
  /\ \/ /\ ~rec[t].recognized
        /\ Goto(t, "done") /\ UNCHANGED ra
     \/ /\ rec[t].recognized
        /\ Goto(t, "done") /\ UNCHANGED ra
     \/ /\ rec[t].recognized
        /\ \E i \in StudentsByFaceId(rec[t].face_id) :
             ra' = [ra EXCEPT ![t] = [NoRa EXCEPT !.student_id = i]]
        /\ Goto(t, "ra_conn")
  /\ UNCHANGED <<engineVars, lockVars, diskVars, dbVars, envVars, reg, rec, result>>

(* ============ database.py : Database.record_attendance ================= *)

\* mutant: the two parameters of the select are bound in the wrong order
RowsOfSwapped(sid, d) ==
  {r \in BagToSet(attendance) : r.student_id = d /\ r.date = sid}

\* the committed rows of (student_id, date)
RowsOf(sid, d) ==
  {r \in BagToSet(attendance) : r.student_id = sid /\ r.date = d}

\* lines 251-256: the row the call inserts
NewRow(t) ==
  [student_id |-> ra[t].student_id,
   nim |-> db_students[ra[t].student_id].nim,
   name |-> db_students[ra[t].student_id].name,
   date |-> ra[t].today,
   confidence |-> rec[t].confidence,
   lighting_condition |-> rec[t].lighting]

\* lines 224-233: today is read, then get_connection returns a connection
\* or raises Error after its retries (lines 62-86)
RaConnect(t) ==
  /\ pc[t] = "ra_conn"
  /\ \/ /\ ra' = [ra EXCEPT ![t].today = day, ![t].conn = "alive"]
        /\ Goto(t, "ra_begin")
     \/ /\ ra' = [ra EXCEPT ![t].today = day, ![t].failed = "connect"]
        /\ Goto(t, "ra_except")
  /\ UNCHANGED <<engineVars, lockVars, diskVars, dbVars, envVars, reg, rec, result>>

\* line 236: conn.start_transaction()
RaBegin(t) ==
  /\ pc[t] = "ra_begin"
  /\ ra' = [ra EXCEPT ![t].txn = "open"]
  /\ Goto(t, "ra_select")
  /\ UNCHANGED <<engineVars, lockVars, diskVars, dbVars, envVars, reg, rec, result>>

\* lines 239-246: the select reads the committed rows of (student_id, today)
RaSelect(t) ==
  /\ pc[t] = "ra_select"
  /\ LET found == RowsOf(ra[t].student_id, ra[t].today) IN
       IF found # {}
       THEN /\ ra' = [ra EXCEPT ![t].record = CHOOSE r \in found : TRUE]
            /\ Goto(t, "ra_already")
       ELSE /\ UNCHANGED ra
            /\ Goto(t, "ra_insert")
  /\ UNCHANGED <<engineVars, lockVars, diskVars, dbVars, envVars, reg, rec, result>>

\* lines 247-248, then app.py 193-196: rollback and return "already"
RaAlready(t) ==
  /\ pc[t] = "ra_already"
  /\ ra' = [ra EXCEPT ![t].txn = "rolledback", ![t].outcome = "already"]
  /\ Goto(t, "done")
  /\ UNCHANGED <<engineVars, lockVars, diskVars, dbVars, envVars, reg, rec, result>>

\* lines 258-259: the insert, inside the open transaction
RaInsert(t) ==
  /\ pc[t] = "ra_insert"
  /\ Goto(t, "ra_commit")
  /\ UNCHANGED <<engineVars, lockVars, diskVars, dbVars, envVars, reg, rec, ra, result>>

\* line 262: the commit makes the inserted row visible
RaCommit(t) ==
  /\ pc[t] = "ra_commit"
  /\ attendance' = attendance (+) SetToBag({NewRow(t)})
  /\ ra' = [ra EXCEPT ![t].txn = "committed"]
  /\ Goto(t, "ra_log")
  /\ UNCHANGED <<engineVars, lockVars, diskVars, db_students, envVars, reg, rec, result>>

\* lines 265-268, then app.py 193-196: log_activity (execute_query never
\* raises Error) and return "success"
RaLog(t) ==
  /\ pc[t] = "ra_log"
  /\ ra' = [ra EXCEPT ![t].outcome = "success"]
  /\ Goto(t, "done")
  /\ UNCHANGED <<engineVars, lockVars, diskVars, dbVars, envVars, reg, rec, result>>

\* the storage operation named by a position of record_attendance
OpAt(l) ==
  CASE l = "ra_begin" -> "begin"
    [] l = "ra_select" -> "select"
    [] l = "ra_already" -> "rollback"
    [] l = "ra_insert" -> "insert"
    [] l = "ra_commit" -> "commit"

\* a storage operation of lines 236-262 raises mysql.connector.Error: the
\* statement is refused on a live connection, or the connection is lost
\* (and the server discards the open transaction)
RaFail(t) ==
  /\ pc[t] \in {"ra_begin", "ra_select", "ra_already", "ra_insert", "ra_commit"}
  /\ \E c \in {"alive", "lost"} :
       ra' = [ra EXCEPT ![t].failed = OpAt(pc[t]), ![t].conn = c,
                        ![t].txn = IF c = "lost" /\ @ = "open" THEN "lost" ELSE @]
  /\ Goto(t, "ra_except")
  /\ UNCHANGED <<engineVars, lockVars, diskVars, dbVars, envVars, reg, rec, result>>

\* lines 270-274: except Error: rollback if there is a connection, return
\* "error".  conn.rollback() on a lost connection raises in its turn; that
\* exception leaves record_attendance and is caught by process_recognition
\* (app.py 198-203)
RaExcept(t) ==
  /\ pc[t] = "ra_except"
  /\ IF ra[t].conn = "lost"
     THEN /\ ra' = [ra EXCEPT ![t].outcome = "raised"]
          /\ Return(t, Fail("Recognition processing error"))
     ELSE /\ ra' = [ra EXCEPT ![t].outcome = "error",
                              ![t].txn = IF @ = "open" THEN "rolledback" ELSE @]
          /\ Goto(t, "done")
          /\ UNCHANGED result
  /\ UNCHANGED <<engineVars, lockVars, diskVars, dbVars, envVars, reg, rec>>

RegisterNext(t) ==
  \/ StartRegister(t) \/ RegAcquireCheck(t) \/ RegCheck(t) \/ RegDetect(t)
  \/ RegAcquireAssign(t) \/ RegAssign(t) \/ RegAcquireTrain(t) \/ RegTrain(t)
  \/ SaveAcquireModel(t) \/ SaveModel(t) \/ SaveAcquireStudents(t)
  \/ SaveStudents(t) \/ RegisterDb(t)

RecognizeEngine(t) ==
  \/ StartRecognize(t) \/ RecDetect(t) \/ RecAcquirePredict(t) \/ RecPredict(t)
  \/ RecAcquireCheck(t) \/ RecCheck(t)

LedgerNext(t) ==
  \/ RaConnect(t) \/ RaBegin(t) \/ RaSelect(t) \/ RaAlready(t) \/ RaInsert(t)
  \/ RaCommit(t) \/ RaLog(t) \/ RaFail(t) \/ RaExcept(t)

(* Concurrent /api/register requests, across process restarts *)
Next ==
  \/ \E t \in Threads : RegisterNext(t) \/ Respond(t)
  \/ Restart

Spec == Init /\ [][Next]_vars

(* Concurrent /api/recognize requests over the days, on an engine that has *)
(* enrolled its students                                                   *)
Alice == [nim |-> "S001", name |-> "Alice", registered_at |-> 1]
Bob   == [nim |-> "S002", name |-> "Bob", registered_at |-> 1]
TwoTrained ==
  [trained |-> TRUE,
   samples |-> TrainingBatch(0, "S001") \cup TrainingBatch(1, "S002")]

\* both enrollments completed: two identities, both snapshots, two rows
EnrolledBoth ==
  /\ students = (0 :> Alice) @@ (1 :> Bob)
  /\ next_face_id = 2
  /\ students_file = [exists |-> TRUE, data |-> (0 :> Alice) @@ (1 :> Bob)]
  /\ db_students = <<[nim |-> "S001", name |-> "Alice", face_id |-> 0],
                     [nim |-> "S002", name |-> "Bob", face_id |-> 1]>>
  /\ nRestart = 0

\* the second enrollment wrote the classifier snapshot but not the identity
\* snapshot, and the process was restarted
EnrolledThenRestarted ==
  /\ students = (0 :> Alice)
  /\ next_face_id = 1
  /\ students_file = [exists |-> TRUE, data |-> (0 :> Alice)]
  /\ db_students = <<[nim |-> "S001", name |-> "Alice", face_id |-> 0]>>
  /\ nRestart = 1

LedgerInit ==
  /\ recognizer = TwoTrained
  /\ model_file = [exists |-> TRUE, data |-> TwoTrained]
  /\ EnrolledBoth \/ EnrolledThenRestarted
  /\ model_lock = NoThread
  /\ students_lock = NoThread
  /\ attendance = EmptyBag
  /\ day = 1
  /\ pc = [t \in Threads |-> "idle"]
  /\ reg = [t \in Threads |-> NoReg]
  /\ rec = [t \in Threads |-> NoRec]
  /\ ra = [t \in Threads |-> NoRa]
  /\ result = [t \in Threads |-> NoResult]
  /\ score = NoScore
  /\ recognition_queue = 0
  /\ requests = NoRequests
  /\ boot = Booted

LedgerStep ==
  \/ \E t \in Threads : RecognizeEngine(t) \/ ProcessRecognition(t)
                        \/ LedgerNext(t) \/ Respond(t)
  \/ Tick

SpecLedger == LedgerInit /\ [][LedgerStep]_vars

\* the states of LedgerInit are states of Spec
ReachesEnrolledBoth ==
  ~(recognizer = TwoTrained /\ model_file.exists /\ model_file.data = TwoTrained
    /\ EnrolledBoth /\ \A t \in Threads : pc[t] = "idle")
ReachesEnrolledThenRestarted ==
  ~(recognizer = TwoTrained /\ model_file.exists /\ model_file.data = TwoTrained
    /\ EnrolledThenRestarted /\ \A t \in Threads : pc[t] = "idle")

(* The scoring functions of recognize_face_from_image on every input *)
ScoreDistances ==
  {0, 1, Units(35) - 1, Units(35), Units(35) + 1, Units(100) - 1, Units(100),
   Units(100) + 1, Units(150)}
ScoreBrightnesses == {0, 49, 50, 99, 100, 149, 150, 255}

ScoreInit ==
  /\ MainInit
  /\ score \in {[NoScore EXCEPT !.d = d, !.b = b] :
                  d \in ScoreDistances, b \in ScoreBrightnesses}
  /\ boot = Booted

\* lines 269-280 applied to the drawn distance and mean intensity
ScoreStep ==
  /\ ~score.done
  /\ score' = [score EXCEPT !.done = TRUE,
                            !.conf = AdjustConfidence(score.d),
                            !.lighting = Lighting(score.b)]
  /\ UNCHANGED <<engineVars, lockVars, diskVars, dbVars, day, nRestart,
                 queueVars, boot, pc, reg, rec, ra, result>>

SpecScore == ScoreInit /\ [][ScoreStep]_vars

(* ============ /api/system/status : app.system_status =================== *)

\* app.py 351-356: the handler is entered and checks the components
StartStatus(t) ==
  /\ pc[t] = "idle"
  /\ Goto(t, "status_read")
  /\ UNCHANGED <<engineVars, lockVars, diskVars, dbVars, envVars, reg, rec, ra, result>>

\* app.py 358-365: len(face_recognizer.students), read with no lock taken
StatusRead(t) ==
  /\ pc[t] = "status_read"
  /\ Return(t, [success |-> TRUE, message |-> "status", face_id |-> Null,
                students_count |-> Cardinality(DOMAIN students)])
  /\ UNCHANGED <<engineVars, lockVars, diskVars, dbVars, envVars, reg, rec, ra>>

StatusNext(t) == StartStatus(t) \/ StatusRead(t)

(* Enrollment and recognition calls of the engine running side by side    *)
RegisterEngine(t) ==
  \/ StartRegister(t) \/ RegAcquireCheck(t) \/ RegCheck(t) \/ RegDetect(t)
  \/ RegAcquireAssign(t) \/ RegAssign(t) \/ RegAcquireTrain(t) \/ RegTrain(t)
  \/ SaveAcquireModel(t) \/ SaveModel(t) \/ SaveAcquireStudents(t)
  \/ SaveStudents(t)

\* face_recognizer.py 199-204 and 316-321: the engine call returns its
\* result to the handler, whose own steps are those of Spec and SpecLedger
EngineReturn(t) ==
  /\ pc[t] \in {"reg_db", "proc"}
  /\ Goto(t, "done")
  /\ UNCHANGED <<engineVars, lockVars, diskVars, dbVars, envVars, reg, rec, ra, result>>

EngineStep ==
  \E t \in Threads : RegisterEngine(t) \/ RecognizeEngine(t)
                      \/ EngineReturn(t) \/ StatusNext(t) \/ Respond(t)

SpecEngine == Init /\ [][EngineStep]_vars

\* the steps of a call in progress: those that wait for a lock, and the rest
EngineAcquire(t) ==
  \/ RegAcquireCheck(t) \/ RegAcquireAssign(t) \/ RegAcquireTrain(t)
  \/ SaveAcquireModel(t) \/ SaveAcquireStudents(t)
  \/ RecAcquirePredict(t) \/ RecAcquireCheck(t)
EngineProgress(t) ==
  \/ RegCheck(t) \/ RegDetect(t) \/ RegAssign(t) \/ RegTrain(t)
  \/ SaveModel(t) \/ SaveStudents(t)
  \/ RecDetect(t) \/ RecPredict(t) \/ RecCheck(t)

\* one request per thread
CallStep ==
  \E t \in Threads : RegisterEngine(t) \/ RecognizeEngine(t)
                      \/ EngineReturn(t) \/ StatusNext(t)

\* every thread inside a call keeps running, and a thread that finds a lock
\* free again and again gets it; requests need not arrive
SpecCallFair ==
  /\ Init /\ [][CallStep]_vars
  /\ \A t \in Threads : WF_vars(EngineProgress(t)) /\ SF_vars(EngineAcquire(t))

(* ============ /api/recognize : the admission queue ====================== *)
(* app.recognize_face around process_recognition. The requests are alike,  *)
(* so they are counted by position instead of being told apart.            *)

handlerVars == <<engineVars, lockVars, diskVars, dbVars, day, nRestart, score, boot,
                 pc, reg, rec, ra, result>>

InFlight ==
  requests.check + requests.rejected + requests.put + requests.proc
  + requests.get + requests.respond + requests.get_again

Move(from, to) ==
  requests' = [requests EXCEPT ![from] = @ - 1, ![to] = @ + 1]
Leave(from) == requests' = [requests EXCEPT ![from] = @ - 1]

\* app.py 205-222: a request thread enters the handler with an image
QArrive ==
  /\ InFlight < MaxRequests
  /\ requests' = [requests EXCEPT !.check = @ + 1]
  /\ UNCHANGED <<recognition_queue, handlerVars>>

\* lines 225-230: if recognition_queue.full(): return 429
QCheckFull ==
  /\ requests.check > 0
  /\ IF recognition_queue >= QueueMax
     THEN Move("check", "rejected")
     ELSE Move("check", "put")
  /\ UNCHANGED <<recognition_queue, handlerVars>>

\* line 230: the 429 response is sent
QReject ==
  /\ requests.rejected > 0
  /\ Leave("rejected")
  /\ UNCHANGED <<recognition_queue, handlerVars>>

\* line 233: recognition_queue.put(image_data), a blocking put: it waits
\* while the queue holds maxsize items
QPut ==
  /\ requests.put > 0
  /\ recognition_queue < QueueMax
  /\ recognition_queue' = recognition_queue + 1
  /\ Move("put", "proc")
  /\ UNCHANGED handlerVars

\* line 236: process_recognition, which catches every exception (166-203)
QProcess ==
  /\ requests.proc > 0
  /\ Move("proc", "get")
  /\ UNCHANGED <<recognition_queue, handlerVars>>

\* line 237: recognition_queue.get(), a blocking get
QGet ==
  /\ requests.get > 0
  /\ recognition_queue > 0
  /\ recognition_queue' = recognition_queue - 1
  /\ Move("get", "respond")
  /\ UNCHANGED handlerVars

\* line 238: jsonify(result) returns the response, or raises on a value it
\* cannot serialise, into the except clause of line 239
QRespond ==
  /\ requests.respond > 0
  /\ Leave("respond") \/ Move("respond", "get_again")
  /\ UNCHANGED <<recognition_queue, handlerVars>>

\* lines 240-249: a second recognition_queue.get(), then the 500 response
QGetAgain ==
  /\ requests.get_again > 0
  /\ recognition_queue > 0
  /\ recognition_queue' = recognition_queue - 1
  /\ Leave("get_again")
  /\ UNCHANGED handlerVars

QueueStep ==
  \/ QArrive \/ QCheckFull \/ QReject \/ QPut
  \/ QProcess \/ QGet \/ QRespond \/ QGetAgain

SpecQueue == Init /\ [][QueueStep]_vars

(* ============ the choice of the face box ================================ *)
(* face_recognizer.py 157-158 and 257-258:                                 *)
(*   faces = sorted(faces, key=lambda x: x[2]*x[3], reverse=True)          *)
(*   x, y, w, h = faces[0]                                                 *)

Area(f) == f.w * f.h

Reverse(q) == [i \in 1 .. Len(q) |-> q[Len(q) + 1 - i]]

\* insertion into a list sorted by ascending area, behind the elements of
\* the same area
RECURSIVE InsertByArea(_, _)
InsertByArea(f, q) ==
  IF q = << >> THEN <<f>>
  ELSE IF Area(f) < Area(Head(q)) THEN <<f>> \o q
  ELSE <<Head(q)>> \o InsertByArea(f, Tail(q))

\* the stable ascending sort of list.sort
RECURSIVE SortAscending(_)
SortAscending(q) ==
  IF q = << >> THEN << >>
  ELSE InsertByArea(q[Len(q)], SortAscending(SubSeq(q, 1, Len(q) - 1)))

\* mutant: the ascending sort turned around, which turns ties around too
SortedLargestFirstReversed(q) == Reverse(SortAscending(q))

\* sorted(..., reverse=True): list.sort reverses the list, sorts it
\* ascending and stably, and reverses the result
SortedLargestFirst(q) == Reverse(SortAscending(Reverse(q)))

\* the detector's output: up to MaxFaces boxes, x telling them apart
Boxes(n) ==
  {q \in [1 .. n -> [x : 1 .. n, w : 1 .. MaxSide, h : 1 .. MaxSide]] :
     \A i \in 1 .. n : q[i].x = i}
FaceLists == UNION {Boxes(n) : n \in 1 .. MaxFaces}

BoxInit ==
  /\ MainInit
  /\ boot = Booted
  /\ score \in {[faces |-> q, done |-> FALSE, chosen |-> Null] : q \in FaceLists}

BoxStep ==
  /\ ~score.done
  /\ score' = [score EXCEPT !.done = TRUE,
                            !.chosen = SortedLargestFirst(score.faces)[1]]
  /\ UNCHANGED <<engineVars, lockVars, diskVars, dbVars, day, nRestart,
                 queueVars, boot, pc, reg, rec, ra, result>>

SpecBox == BoxInit /\ [][BoxStep]_vars

(* ============ construction : app.initialize_components ================= *)
(* check_components, initialize_components and the constructors of the two *)
(* singletons, from the start of the process                               *)

BootGoto(t, l) == [boot EXCEPT !.pc[t] = l]
bootFrame == <<diskVars, dbVars, day, nRestart, score, queueVars,
               pc, reg, rec, ra, result>>

\* app.py 54-57: db is None or face_recognizer is None, read with no lock;
\* a second call under lines 59-61 takes the same path as a later request
CheckComponents(t) ==
  /\ boot.pc[t] = "out"
  /\ boot' = IF boot.db /\ boot.face_recognizer
             THEN BootGoto(t, "checked")
             ELSE BootGoto(t, "init_wait")
  /\ UNCHANGED <<engineVars, lockVars, bootFrame>>

\* mutant: initialize_components does not wait for init_lock
InitAcquireNoWait(t) ==
  /\ boot.pc[t] = "init_wait"
  /\ boot.bodies < MaxConstruct
  /\ boot' = [BootGoto(t, "db_new") EXCEPT !.init_lock = t]
  /\ UNCHANGED <<engineVars, lockVars, bootFrame>>

\* app.py 34: with init_lock
InitAcquire(t) ==
  /\ boot.pc[t] = "init_wait"
  /\ boot.init_lock = NoThread
  /\ boot.bodies < MaxConstruct
  /\ boot' = [BootGoto(t, "db_new") EXCEPT !.init_lock = t]
  /\ UNCHANGED <<engineVars, lockVars, bootFrame>>

\* app.py 35-37 and database.py 12-18: Database.__new__
DatabaseNew(t) ==
  /\ boot.pc[t] = "db_new"
  /\ boot' = IF boot.db THEN BootGoto(t, "fr_new")
             ELSE IF boot.db_instances = 0
             THEN [BootGoto(t, "db_init") EXCEPT !.db_instances = 1,
                                                 !.db_initialized = FALSE]
             ELSE BootGoto(t, "db_init")
  /\ UNCHANGED <<engineVars, lockVars, bootFrame>>

\* database.py 20-30 and app.py 37: Database.__init__, whose pool failure
\* is caught inside _initialize_pool; db is assigned
DatabaseInit(t) ==
  /\ boot.pc[t] = "db_init"
  /\ boot' = [BootGoto(t, "fr_new") EXCEPT
               !.db_bodies = IF boot.db_initialized THEN @ ELSE @ + 1,
               !.db_initialized = TRUE,
               !.db = TRUE]
  /\ UNCHANGED <<engineVars, lockVars, bootFrame>>

\* app.py 43-45 and face_recognizer.py 17-22: FaceRecognizer.__new__
FaceRecognizerNew(t) ==
  /\ boot.pc[t] = "fr_new"
  /\ boot' = IF boot.face_recognizer THEN BootGoto(t, "release")
             ELSE IF boot.instances = 0
             THEN [BootGoto(t, "fr_init") EXCEPT !.instances = 1,
                                                 !.initialized = FALSE]
             ELSE BootGoto(t, "fr_init")
  /\ UNCHANGED <<engineVars, lockVars, bootFrame>>

\* face_recognizer.py 24-47: __init__ tests _initialized and, if it is not
\* set, starts the body: students, next_face_id and the locks are reset
FaceRecognizerInit(t) ==
  /\ boot.pc[t] = "fr_init"
  /\ IF boot.initialized
     THEN /\ boot' = BootGoto(t, "fr_assign")
          /\ UNCHANGED <<engineVars, lockVars>>
     ELSE /\ boot' = [BootGoto(t, "fr_load") EXCEPT !.bodies = @ + 1,
                                                    !.loading = t]
          /\ students' = EmptyStudents
          /\ next_face_id' = 0
          /\ model_lock' = NoThread
          /\ students_lock' = NoThread
          /\ UNCHANGED recognizer
  /\ UNCHANGED bootFrame

\* face_recognizer.py 50-52, 54-92: _load_data returns and _initialized is
\* set, or _load_data raises, before or after the classifier was read,
\* into the except clause of app.py 47-49
LoadData(t) ==
  /\ boot.pc[t] = "fr_load"
  /\ \/ /\ recognizer' = IF model_file.exists THEN model_file.data ELSE Untrained
        /\ students' = IF students_file.exists THEN students_file.data
                       ELSE EmptyStudents
        /\ next_face_id' = IF students_file.exists
                           THEN LoadNextFaceId(students_file.data) ELSE 0
        /\ boot' = [BootGoto(t, "fr_assign") EXCEPT !.initialized = TRUE,
                                                    !.loading = NoThread]
     \/ /\ recognizer' \in {Untrained,
                             IF model_file.exists THEN model_file.data ELSE Untrained}
        /\ UNCHANGED <<students, next_face_id>>
        /\ boot' = [BootGoto(t, "release") EXCEPT !.loading = NoThread]
  /\ UNCHANGED <<lockVars, bootFrame>>

\* app.py 45: face_recognizer = FaceRecognizer()
FaceRecognizerAssign(t) ==
  /\ boot.pc[t] = "fr_assign"
  /\ boot' = [BootGoto(t, "release") EXCEPT !.face_recognizer = TRUE]
  /\ UNCHANGED <<engineVars, lockVars, bootFrame>>

\* app.py 34: the with block of init_lock is left
InitRelease(t) ==
  /\ boot.pc[t] = "release"
  /\ boot' = [BootGoto(t, "checked") EXCEPT !.init_lock = NoThread]
  /\ UNCHANGED <<engineVars, lockVars, bootFrame>>

\* app.py 64: check_components returns to the handler
ComponentsChecked(t) ==
  /\ boot.pc[t] = "checked"
  /\ boot' = BootGoto(t, "out")
  /\ UNCHANGED <<engineVars, lockVars, bootFrame>>

InitStep ==
  \E t \in Threads :
     \/ CheckComponents(t) \/ InitAcquire(t) \/ DatabaseNew(t) \/ DatabaseInit(t)
     \/ FaceRecognizerNew(t) \/ FaceRecognizerInit(t) \/ LoadData(t)
     \/ FaceRecognizerAssign(t) \/ InitRelease(t) \/ ComponentsChecked(t)

BootInit == MainInit /\ score = NoScore /\ boot = NotBooted

SpecInit == BootInit /\ [][InitStep]_vars

(* ============================== claims ================================= *)

LedgerPcs == {"ra_conn", "ra_begin", "ra_select", "ra_already", "ra_insert",
              "ra_commit", "ra_log", "ra_except"}

\* the number of committed attendance rows of (sid, d)
RowCount(sid, d) ==
  LET keyed == {r \in BagToSet(attendance) : r.student_id = sid /\ r.date = d}
  IN  BagCardinality([r \in keyed |-> CopiesIn(r, attendance)])

\* C1: the attendance table never holds more than one row for a
\* (student_id, date), and holds exactly one once a record_attendance call
\* for it has returned "success".
C1_DedupInvariant ==
  /\ \A r \in BagToSet(attendance) : RowCount(r.student_id, r.date) <= 1
  /\ \A t \in Threads :
       ra[t].outcome = "success" => RowCount(ra[t].student_id, ra[t].today) = 1

\* C2: no two stored identities have the same person_id (nim).
C2_UniqueNim ==
  \A j, k \in DOMAIN students :
     j # k => students[j].nim # students[k].nim

\* C3: an enrollment that reaches the duplicate check while its nim is in
\* the Identity Store returns the unsuccessful result "NIM already
\* registered", and the identity mapping, next_face_id, the classifier and
\* both snapshot files are the same after the call as before it.
C3_DuplicateNoChange ==
  [][\A t \in Threads :
       (/\ pc[t] = "reg_check"
        /\ \E k \in DOMAIN students : students[k].nim = reg[t].nim
        /\ pc'[t] # pc[t]
        /\ nRestart' = nRestart)
       => /\ pc'[t] = "done"
          /\ ~result'[t].success
          /\ result'[t].message = "NIM already registered"
          /\ UNCHANGED <<students, next_face_id, recognizer,
                         model_file, students_file>>]_vars

C3_Witness ==
  \E t \in Threads :
     /\ pc[t] = "done"
     /\ result[t].message = "NIM already registered"
     /\ \E k \in DOMAIN students : students[k].nim = reg[t].nim

\* C4: every enrollment that allocates an identifier gets the greatest
\* face_id of the Identity Store plus one, or 0 when the store is empty,
\* also after the store was reloaded from its snapshot.
C4_FaceIdIsMaxPlusOne ==
  [][\A t \in Threads :
       (pc[t] = "reg_assign" /\ pc'[t] = "reg_lock3")
       => reg'[t].face_id =
            (IF DOMAIN students = {} THEN 0 ELSE Max(DOMAIN students) + 1)]_vars

C4_Witness ==
  \E t \in Threads :
     /\ nRestart = 1
     /\ pc[t] = "reg_lock3"
     /\ reg[t].face_id = 1

\* C5: the result entry has recognized = true exactly when the predicted
\* face_id is a key of the Identity Store and the confidence is above 65;
\* otherwise it has name "Unknown" and null face_id and person_id.
C5_RecognizedIff ==
  [][\A t \in Threads :
       (pc[t] = "rec_check" /\ pc'[t] = "proc")
       => /\ rec'[t].recognized <=>
               (rec[t].label \in DOMAIN students /\ rec[t].conf > 65 * 1000)
          /\ rec'[t].recognized =>
               /\ rec'[t].face_id = rec[t].label
               /\ rec'[t].nim = students[rec[t].label].nim
               /\ rec'[t].name = students[rec[t].label].name
          /\ ~rec'[t].recognized =>
               /\ rec'[t].name = "Unknown"
               /\ rec'[t].face_id = Null
               /\ rec'[t].nim = "NULL"]_vars

C5_Witness ==
  \E t, u \in Threads :
     /\ pc[t] = "proc" /\ rec[t].recognized
     /\ pc[u] = "proc" /\ ~rec[u].recognized
     /\ rec[u].conf > 65 * 1000 /\ rec[u].label \notin DOMAIN students

\* C6: the confidence computed from a raw distance d is 100 - d when
\* d < 100 and 0 otherwise.
C6_ConfidenceInversion ==
  score.done =>
    score.conf = (IF score.d < 100 * 1000 THEN 100 * 1000 - score.d ELSE 0)

C6_Witness == score.done /\ score.d = Units(100) /\ score.conf = 0

\* C7: record_attendance runs, and an attendance row is inserted, only
\* inside a recognition whose result has recognized = true.
C7_LedgerOnlyWhenRecognized ==
  [][/\ \A t \in Threads :
          pc'[t] \in LedgerPcs => (rec'[t].recognized /\ result'[t].success)
     /\ attendance' # attendance =>
          \E t \in Threads : pc[t] = "ra_commit" /\ rec[t].recognized]_vars

C7_Witness ==
  \E t, u \in Threads :
     /\ pc[t] = "ra_log" /\ rec[t].recognized
     /\ pc[u] = "done" /\ rec[u].label # Null /\ ~rec[u].recognized
     /\ ra[u].outcome = "none"

\* C8: when the select of record_attendance finds a row of
\* (student_id, today), the call writes nothing, and, its storage
\* operations succeeding, rolls its transaction back and returns "already"
\* with an existing row of (student_id, today).
C8_AlreadyRecorded ==
  [][\A t \in Threads :
       LET existing == {r \in BagToSet(attendance) :
                          r.student_id = ra[t].student_id /\ r.date = ra[t].today}
       IN
       /\ (pc[t] = "ra_select" /\ existing # {}
             /\ pc'[t] \notin {"ra_select", "ra_except"})
          => /\ pc'[t] = "ra_already"
             /\ ra'[t].record \in existing
             /\ attendance' = attendance
       /\ (pc[t] = "ra_already" /\ pc'[t] \notin {"ra_already", "ra_except"})
          => /\ pc'[t] = "done"
             /\ ra'[t].outcome = "already"
             /\ ra'[t].txn = "rolledback"
             /\ ra'[t].record = ra[t].record
             /\ ra[t].record \in existing
             /\ attendance' = attendance
       /\ (ra[t].record # NoRow /\ pc'[t] # "idle")
          => /\ attendance' = attendance \/ pc'[t] = pc[t]
             /\ pc'[t] \in {"ra_already", "ra_except", "done"}]_vars

C8_Witness ==
  \E t \in Threads :
     /\ pc[t] = "done"
     /\ ra[t].outcome = "already"
     /\ ra[t].record \in BagToSet(attendance)

\* C9: a record_attendance call in which obtaining the connection, starting
\* the transaction, the select, the insert or the commit failed returns the
\* status "error" to its caller and has committed no row.
C9_FailureReturnsError ==
  \A t \in Threads :
     (pc[t] = "done"
        /\ ra[t].failed \in {"connect", "begin", "select", "insert", "commit"})
     => (ra[t].outcome = "error" /\ ra[t].txn # "committed")

\* C10: once the classifier is trained, every later enrollment updates it:
\* no training step removes samples of an earlier enrollment.
C10_NeverRetrained ==
  [][\A t \in Threads :
       (pc[t] = "reg_train" /\ pc'[t] = "save_lock1" /\ recognizer.trained)
       => recognizer.samples \subseteq recognizer'.samples]_vars

\* C11: an enrollment reports success with face_id f only after it has
\* written both snapshots, and the classifier snapshot and the identity
\* snapshot it wrote both contain f.
C11_SuccessBothSnapshots ==
  [][\A t \in Threads :
       /\ (pc[t] = "save_model" /\ pc'[t] = "save_lock2")
          => reg[t].face_id \in Labels(model_file'.data)
       /\ (pc[t] = "save_students" /\ pc'[t] = "reg_db")
          => reg[t].face_id \in DOMAIN students_file'.data
       /\ (result'[t].success /\ result'[t].face_id # Null /\ ~result[t].success)
          => (pc[t] = "save_students" /\ result'[t].face_id = reg[t].face_id)]_vars

\* C12: _save_data writes the classifier and the identity mapping as they
\* are in memory, and an engine constructed from snapshots that equal the
\* memory has the same identity mapping, the same next_face_id and the same
\* classifier as the engine that saved them.
C12_SaveLoadRoundTrip ==
  [][/\ \A t \in Threads :
          /\ (pc[t] = "save_model" /\ pc'[t] = "save_lock2")
             => model_file' = [exists |-> TRUE, data |-> recognizer]
          /\ (pc[t] = "save_students" /\ pc'[t] = "reg_db")
             => students_file' = [exists |-> TRUE, data |-> students]
     /\ (/\ nRestart' = nRestart + 1
         /\ model_file = [exists |-> TRUE, data |-> recognizer]
         /\ students_file = [exists |-> TRUE, data |-> students])
        => /\ students' = students
           /\ next_face_id' = next_face_id
           /\ recognizer' = recognizer
           /\ model_file'.exists]_vars

C12_Witness ==
  /\ nRestart = 1
  /\ DOMAIN students = {0, 1}
  /\ next_face_id = 2
  /\ students_file = [exists |-> TRUE, data |-> students]
  /\ model_file = [exists |-> TRUE, data |-> recognizer]
  /\ Labels(recognizer) = {0, 1}
  /\ \A t \in Threads : pc[t] = "idle"

\* C13: a request that tests the admission queue while it holds its full
\* capacity is rejected and the queue is left as it is, and no request ever
\* waits in put on a full queue.
C13_RejectedNeverBlocked ==
  [][/\ (requests'.check < requests.check /\ recognition_queue >= QueueMax)
        => /\ requests'.rejected = requests.rejected + 1
           /\ recognition_queue' = recognition_queue
     /\ ~(requests'.put > 0 /\ recognition_queue' >= QueueMax)]_vars

\* C14: the lighting bucket of a mean intensity m is "Dark" for m < 50,
\* "Dim" for 50 <= m < 100, "Normal" for 100 <= m < 150 and "Bright" for
\* m >= 150: exactly one of the four, fixed by m.
C14_LightingBuckets ==
  score.done =>
    /\ score.lighting \in {"Dark", "Dim", "Normal", "Bright"}
    /\ score.lighting = "Dark" <=> score.b < 50
    /\ score.lighting = "Dim" <=> (50 <= score.b /\ score.b < 100)
    /\ score.lighting = "Normal" <=> (100 <= score.b /\ score.b < 150)
    /\ score.lighting = "Bright" <=> score.b >= 150

C14_Witness ==
  score.done /\ score.b = 50 /\ score.lighting = "Dim"

\* C15: at most one thread at a time is inside a classifier operation
\* (train or update, predict, the write of the classifier snapshot), and
\* that thread is the holder of model_lock.
C15_ClassifierExclusive ==
  \A t, u \in Threads :
     (/\ pc[t] \in {"reg_train", "save_model", "rec_predict"}
      /\ pc[u] \in {"reg_train", "save_model", "rec_predict"})
     => (t = u /\ model_lock = t)

\* a prediction waits for the lock while an enrollment trains
C15_Witness ==
  \E t, u \in Threads :
     /\ pc[t] = "reg_train" /\ model_lock = t
     /\ pc[u] = "rec_lock1"
     /\ recognizer.trained

\* C16: every label a train or update call adds to the classifier is, at
\* the moment of the call, a key of the Identity Store, and is the face_id
\* of the enrollment making the call.
C16_LabelsAreStoredKeys ==
  [][\A t \in Threads :
       (pc[t] = "reg_train" /\ pc'[t] = "save_lock1")
       => /\ reg[t].face_id \in DOMAIN students
          /\ students[reg[t].face_id].nim = reg[t].nim
          /\ \A s \in recognizer'.samples \ recognizer.samples :
               s.label = reg[t].face_id]_vars

\* a second enrollment has trained under face_id 1 after a restart
C16_Witness ==
  \E t \in Threads :
     /\ nRestart = 1
     /\ pc[t] = "save_lock1"
     /\ reg[t].face_id = 1
     /\ 1 \in Labels(recognizer)
     /\ 1 \in DOMAIN students

\* C17: an enrollment that fails before an identifier is allocated (the
\* image cannot be decoded, or holds no face) returns an unsuccessful result
\* and leaves the Identity Store, next_face_id, the classifier and both
\* snapshots as they were.
C17_EarlyFailureNoChange ==
  [][\A t \in Threads :
       /\ (pc[t] = "reg_detect" /\ pc'[t] = "done")
          => /\ ~result'[t].success
             /\ result'[t].message \in {"Error: invalid image", "No face detected"}
             /\ reg[t].face_id = Null
       /\ (pc[t] \in {"reg_lock1", "reg_check", "reg_detect"}
             /\ pc'[t] # pc[t] /\ nRestart' = nRestart)
          => UNCHANGED <<students, next_face_id, recognizer,
                         model_file, students_file>>]_vars

\* an enrollment has failed on its image while the store holds an identity
C17_Witness ==
  \E t \in Threads :
     /\ pc[t] = "done"
     /\ result[t].message = "No face detected"
     /\ reg[t].nim # ""
     /\ DOMAIN students = {0}
     /\ next_face_id = 1

\* C18: an enrollment that fails while writing a snapshot returns an
\* unsuccessful result, and at that return the Identity Store holds its new
\* identity and the classifier holds its samples, while the identity
\* snapshot does not hold the identity, so that an engine restarted at that
\* point does not load it.
C18_PersistFailureKeepsMemory ==
  [][\A t \in Threads :
       (pc[t] \in {"save_model", "save_students"} /\ pc'[t] = "done")
       => /\ ~result'[t].success
          /\ reg[t].face_id \in DOMAIN students'
          /\ students'[reg[t].face_id].nim = reg[t].nim
          /\ TrainingBatch(reg[t].face_id, reg[t].nim)
               \subseteq recognizer'.samples
          /\ reg[t].face_id \notin DOMAIN students_file'.data]_vars

\* C19: no step of a recognize_face_from_image call, whatever the call's
\* outcome, changes the Identity Store, next_face_id, the classifier or
\* either snapshot.
C19_RecognitionChangesNothing ==
  [][\A t \in Threads :
       (/\ pc'[t] # pc[t]
        /\ \/ pc[t] \in {"rec_detect", "rec_lock1", "rec_predict",
                         "rec_lock2", "rec_check"}
           \/ pc'[t] = "rec_detect")
       => UNCHANGED <<students, next_face_id, recognizer,
                      model_file, students_file>>]_vars

\* a recognition has produced its result next to a running enrollment
C19_Witness ==
  \E t, u \in Threads :
     /\ pc[t] = "proc" /\ rec[t].label # Null
     /\ pc[u] \in {"reg_lock2", "reg_lock3", "save_lock1"}
     /\ students # EmptyStudents

\* C20: an identity record never changes once it is stored. While the
\* process runs, every key of the Identity Store keeps its record and no
\* enrollment is assigned a key the store holds; every record of the
\* identity snapshot is the record the store holds under that key, and an
\* engine reloaded from the snapshot holds these records and starts its
\* counter above all of them.
C20_RecordsImmutable ==
  [][/\ nRestart' = nRestart
        => \A f \in DOMAIN students :
              f \in DOMAIN students' /\ students'[f] = students[f]
     /\ \A t \in Threads :
          (pc[t] = "reg_assign" /\ pc'[t] = "reg_lock3")
          => reg'[t].face_id \notin DOMAIN students
     /\ \A f \in DOMAIN students_file.data :
          /\ f \in DOMAIN students
          /\ students_file.data[f] = students[f]
          /\ f \in DOMAIN students'
          /\ students'[f] = students[f]
     /\ \A f \in DOMAIN students' : f < next_face_id']_vars

\* after a reload of the snapshot holding face_id 0, a further enrollment
\* was stored under face_id 1 next to the unchanged record of face_id 0
C20_Witness ==
  /\ nRestart = 1
  /\ DOMAIN students_file.data = {0}
  /\ DOMAIN students = {0, 1}
  /\ students[0] = students_file.data[0]
  /\ students[1].nim # students[0].nim

\* the positions at which a thread reads or writes students or
\* next_face_id: lines 133, 166-175, 102, 284-299 of face_recognizer.py and
\* line 362 of app.py
StoreAccessPcs ==
  {"reg_check", "reg_assign", "save_students", "rec_check", "status_read"}

\* C21: a thread that reads or writes the identity mapping or next_face_id
\* holds students_lock while it does so.
C21_StoreAccessUnderLock ==
  [][/\ \A t \in Threads :
          (pc[t] \in StoreAccessPcs /\ pc'[t] # pc[t] /\ nRestart' = nRestart)
          => students_lock = t
     /\ ((students' # students \/ next_face_id' # next_face_id)
           /\ nRestart' = nRestart)
        => \E t \in Threads : students_lock = t /\ pc'[t] # pc[t]]_vars

\* C22: the threads that construct the components obtain one FaceRecognizer
\* instance and one Database instance, and the initialization body of each
\* runs at most once in the process.
C22_InitOnce ==
  /\ boot.instances <= 1
  /\ boot.db_instances <= 1
  /\ boot.db_bodies <= 1
  /\ boot.bodies <= 1

\* C22, amended: one instance of each, the Database body runs at most once,
\* and the FaceRecognizer body starts only while none has completed and none
\* is running: it runs again only after a run that raised.
C22_InitOnceCompleted ==
  [][/\ boot'.instances <= 1
     /\ boot'.db_instances <= 1
     /\ boot'.db_bodies <= 1
     /\ boot'.bodies > boot.bodies
        => (~boot.initialized /\ boot.loading = NoThread)
     /\ boot.initialized => boot'.initialized
     /\ boot'.face_recognizer => boot'.initialized]_vars

\* a body that raised was followed by one that completed, on one instance
C22_Witness ==
  /\ boot.bodies = 2
  /\ boot.instances = 1
  /\ boot.initialized
  /\ boot.face_recognizer
  /\ \A t \in Threads : boot.pc[t] = "out"

\* the positions inside register_face_from_image (with _save_data) and
\* recognize_face_from_image
EngineCallPcs ==
  {"reg_lock1", "reg_check", "reg_detect", "reg_lock2", "reg_assign",
   "reg_lock3", "reg_train", "save_lock1", "save_model", "save_lock2",
   "save_students",
   "rec_detect", "rec_lock1", "rec_predict", "rec_lock2", "rec_check"}

\* C23: a call of register_face_from_image or recognize_face_from_image
\* leaves the engine only by returning a result, which has success = false
\* and a message for every failure, and every call that was entered returns.
C23_AlwaysReturnsResult ==
  /\ [][\A t \in Threads :
          (pc[t] \in EngineCallPcs /\ pc'[t] \notin EngineCallPcs
             /\ nRestart' = nRestart)
          => \/ /\ pc'[t] \in {"reg_db", "proc"}
                /\ result'[t].success
             \/ /\ pc'[t] = "done"
                /\ ~result'[t].success
                /\ result'[t].message # ""]_vars
  /\ \A t \in Threads :
       (pc[t] \in EngineCallPcs) ~> (pc[t] \notin EngineCallPcs)

\* a persistence failure and a classifier failure were both returned
C23_Witness ==
  \E t, u \in Threads :
     /\ pc[t] = "done"
     /\ result[t].message = "Error: students write failed"
     /\ pc[u] = "done"
     /\ result[u].message = "Recognition error: model not trained"

\* C24: the box that is processed has the greatest area of the detected
\* boxes, and is the first box of that area in the detector's order.
C24_LargestFirstBox ==
  score.done =>
    \E i \in 1 .. Len(score.faces) :
       /\ score.chosen = score.faces[i]
       /\ \A j \in 1 .. Len(score.faces) :
            /\ score.faces[j].w * score.faces[j].h <= score.faces[i].w * score.faces[i].h
            /\ (score.faces[j].w * score.faces[j].h = score.faces[i].w * score.faces[i].h)
               => i <= j

\* two boxes of the greatest area behind a smaller one: the second is chosen
C24_Witness ==
  /\ score.done
  /\ Len(score.faces) = 3
  /\ score.faces[1].w * score.faces[1].h = 1
  /\ score.faces[2].w * score.faces[2].h = 2
  /\ score.faces[3].w * score.faces[3].h = 2
  /\ score.chosen = score.faces[2]

\* C25: the queue holds one item for every admitted request that has not
\* yet performed its get (so it is empty when none is in flight), and no
\* handler waits in get on an empty queue.
C25_QueueBalanced ==
  /\ recognition_queue = requests.proc + requests.get
  /\ ~(recognition_queue = 0 /\ (requests.get > 0 \/ requests.get_again > 0))

\* C26: the face_id an enrollment is assigned labels no sample of a
\* different person in the classifier, in particular in the classifier an
\* engine has loaded from its snapshot after a restart.
C26_NoLabelReuse ==
  [][\A t \in Threads :
       (pc[t] = "reg_assign" /\ pc'[t] = "reg_lock3")
       => \A s \in recognizer.samples :
             s.label = reg'[t].face_id => s.nim = reg[t].nim]_vars

\* C27: no thread holds model_lock and students_lock together, a thread
\* that waits for a lock or is outside a locked region holds none, and a
\* lock that was taken is released, also when the locked operation raises.
C27_LocksNeverNested ==
  /\ [](\A t \in Threads :
          /\ ~(model_lock = t /\ students_lock = t)
          /\ model_lock = t <=> pc[t] \in {"reg_train", "save_model", "rec_predict"}
          /\ students_lock = t
               <=> pc[t] \in {"reg_check", "reg_assign", "save_students", "rec_check"})
  /\ \A t \in Threads :
       /\ (model_lock = t) ~> (model_lock # t)
       /\ (students_lock = t) ~> (students_lock # t)

\* a train call has raised inside model_lock and another thread holds the
\* lock afterwards
C27_Witness ==
  \E t, u \in Threads :
     /\ pc[t] = "done"
     /\ result[t].message = "Error: classifier failed"
     /\ model_lock = u
     /\ pc[u] = "rec_predict"

\* C28: when /api/register is about to respond with success = true for
\* face_id f, table students holds a row of this person with face_id f.
C28_SuccessHasStudentRow ==
  \A t \in Threads :
     (pc[t] = "done" /\ result[t].success /\ result[t].face_id # Null)
     => \E i \in DOMAIN db_students :
           /\ db_students[i].face_id = result[t].face_id
           /\ db_students[i].nim = reg[t].nim

\* C29: the confidence of a recognition lies between 0 and 100, and every
\* attendance row has a confidence above 65 and at most 100 and one of the
\* four lighting buckets.
C29_RowConfidenceAbove65 ==
  /\ \A t \in Threads :
       rec[t].conf # Null => (0 <= rec[t].conf /\ rec[t].conf <= 100 * 1000)
  /\ \A r \in BagToSet(attendance) :
       /\ r.confidence > 65 * 1000
       /\ r.confidence <= 100 * 1000
       /\ r.lighting_condition \in {"Dark", "Dim", "Normal", "Bright"}

\* C29, amended: the confidence of a recognition lies between 0 and 100; a
\* row is inserted only for a confidence above 65, and holds that confidence
\* rounded to two decimals, which is at least 65 and at most 100, and one of
\* the four lighting buckets.
C29_RowConfidenceRounded ==
  [][/\ \A d \in ScoreDistances :
          0 <= AdjustConfidence(d) /\ AdjustConfidence(d) <= 100 * 1000
     /\ \A t \in Threads :
          /\ rec'[t].conf # Null
             => (0 <= rec'[t].conf /\ rec'[t].conf <= 100 * 1000)
          /\ (pc[t] = "ra_commit" /\ pc'[t] = "ra_log")
             => /\ rec[t].conf > 65 * 1000
                /\ \E r \in BagToSet(attendance') :
                      /\ r.confidence = ((rec[t].conf + 5) \div 10) * 10
                      /\ CopiesIn(r, attendance') = CopiesIn(r, attendance) + 1
     /\ \A r \in BagToSet(attendance') :
          /\ r.confidence >= 65 * 1000
          /\ r.confidence <= 100 * 1000
          /\ r.confidence % 10 = 0
          /\ r.lighting_condition \in {"Dark", "Dim", "Normal", "Bright"}]_vars

\* a row was inserted for the confidence 65.001 and holds 65.00
C29_Witness ==
  \E t \in Threads :
     /\ pc[t] = "ra_log"
     /\ rec[t].conf = 65 * 1000 + 1
     /\ \E r \in BagToSet(attendance) :
           r.confidence = 65 * 1000 /\ r.student_id = ra[t].student_id

====
